---- MODULE Spec2Model ----
(***************************************************************************)
(* A model of x-tool: the x-hash crate (the generic HMAC construction over *)
(* the Digest trait and the hexadecimal formatter DigestFmt) and the x-io  *)
(* crate (file and directory helpers over the operating system's files).   *)
(***************************************************************************)
EXTENDS Integers, Sequences, FiniteSets, TLC

VARIABLES
    hkey,     \* the live HmacKey (NoKey before the first HmacKey::new)
    hsecret,  \* the secret it was derived from
    key0,     \* its stored buffer as HmacKey::new returned it
    rem,      \* an earlier sign call on it, and whether another input was signed since
    last,     \* the latest call of the hash crate and its result
    dlog,     \* the calls the latest call issued to each Digest instance it used
    fbytes,   \* the buffer the latest DigestFmt wrapped
    fw0,      \* the destination writer before the latest DigestFmt::fmt
    fw,       \* the destination writer after it
    fres,     \* what it returned
    fs,       \* the file system: what is at each path
    pre,      \* the file system before the latest call of the io crate
    flast,    \* that call and its result
    expect    \* per path: what was written and appended since the latest write_file

hvars == <<hkey, hsecret, key0, rem, last, dlog>>
fvars == <<fbytes, fw0, fw, fres>>
xvars == <<fs, pre, flast, expect>>
vars == <<hkey, hsecret, key0, rem, last, dlog, fbytes, fw0, fw, fres,
          fs, pre, flast, expect>>

(***************************************************************************)
(* Bytes.                                                                  *)
(***************************************************************************)
Byte == 0..255

RECURSIVE XorBits(_, _, _)
XorBits(a, b, n) ==
    IF n = 0 THEN 0
    ELSE (((a % 2) + (b % 2)) % 2) + 2 * XorBits(a \div 2, b \div 2, n - 1)

\* ^ on half bytes, tabulated
XorNibble == [a \in 0..15 |-> [b \in 0..15 |-> XorBits(a, b, 4)]]

\* u8 ^ u8
Xor8(a, b) == 16 * XorNibble[a \div 16][b \div 16] + XorNibble[a % 16][b % 16]

\* for byte in key.iter_mut() { *byte ^= c; }
XorAll(buf, c) == [i \in 1..Len(buf) |-> Xor8(buf[i], c)]

\* dst[..src.len()].copy_from_slice(src), for src no longer than dst
CopyPrefix(dst, src) ==
    [i \in 1..Len(dst) |-> IF i <= Len(src) THEN src[i] ELSE dst[i]]

RECURSIVE SeqsUpTo(_, _)
SeqsUpTo(S, n) ==
    IF n = 0 THEN {<<>>}
    ELSE LET shorter == SeqsUpTo(S, n - 1)
         IN  shorter \cup {Append(s, x) : s \in {t \in shorter : Len(t) = n - 1}, x \in S}

(***************************************************************************)
(* A Digest backend.  HmacKey<D> is generic over the Digest trait; the     *)
(* backends themselves (md5, sha1, sha256, sha512) are modelled by one     *)
(* scaled-down Merkle-Damgard instance: a chaining value of OutLen bytes,  *)
(* a buffered partial block of fewer than BlockLen bytes and a length      *)
(* counter; padding is 0x80, zeros and the bit length in the last byte.    *)
(***************************************************************************)
BlockLen == 3
OutLen == 2

DigestIV == <<103, 69>>

RECURSIVE Compress(_, _)
Compress(h, block) ==
    IF block = <<>> THEN h
    ELSE LET b == Head(block)
             h1 == (h[1] * 31 + h[2] + b + 1) % 256
             h2 == (h[2] * 17 + h1 * 3 + b + 7) % 256
         IN  Compress(<<h1, h2>>, Tail(block))

\* Digest::new (log: the calls this instance has received, oldest first)
DigestNew == [h |-> DigestIV, buf |-> <<>>, len |-> 0, log |-> <<"new">>]

\* Digest::reset
DigestReset(st) == [DigestNew EXCEPT !.log = Append(st.log, "reset")]

\* one update's absorption: bytes join the partial block, a full block is compressed
RECURSIVE Absorb(_, _)
Absorb(st, input) ==
    IF input = <<>> THEN st
    ELSE LET nb == Append(st.buf, Head(input))
         IN  Absorb(IF Len(nb) = BlockLen
                    THEN [st EXCEPT !.h = Compress(st.h, nb), !.buf = <<>>, !.len = st.len + 1]
                    ELSE [st EXCEPT !.buf = nb, !.len = st.len + 1],
                    Tail(input))

\* Digest::update
DigestUpdate(st, input) == [Absorb(st, input) EXCEPT !.log = Append(st.log, "update")]

Zeros(n) == [i \in 1..n |-> 0]

\* Digest::result: the output, and the state the instance is left in (the
\* final chaining value, not fit for further updates before a reset)
DigestResult(st) ==
    LET marked == Append(st.buf, 128)
        lenByte == (8 * st.len) % 256
        hEnd == IF Len(marked) < BlockLen
                THEN Compress(st.h, marked \o Zeros(BlockLen - Len(marked) - 1) \o <<lenByte>>)
                ELSE Compress(Compress(st.h, marked),
                              Zeros(BlockLen - 1) \o <<lenByte>>)
    IN  [out |-> hEnd,
         st |-> [st EXCEPT !.h = hEnd, !.buf = <<>>, !.log = Append(st.log, "result")]]

\* the one-shot digest: new, update with the whole message, result
Digest(msg) == DigestResult(DigestUpdate(DigestNew, msg)).out

(***************************************************************************)
(* HmacKey.  Each operation yields its result, the HmacKey it leaves and   *)
(* the logs of the Digest instances it used.                               *)
(***************************************************************************)
NoKey == [key |-> <<>>]

\* a defect: a secret of exactly the block size is hashed too
HmacKeyNewStrict(secret) ==
    LET inner == Zeros(BlockLen)
    IN  IF Len(secret) < Len(inner)
        THEN [self |-> [key |-> XorAll(CopyPrefix(inner, secret), 54)], logs |-> <<>>]
        ELSE LET r == DigestResult(DigestUpdate(DigestNew, secret))
             IN  [self |-> [key |-> XorAll(CopyPrefix(inner, r.out), 54)],
                  logs |-> <<DigestReset(r.st).log>>]

\* a defect: a long secret is cut to the block size instead of hashed
HmacKeyNewTruncate(secret) ==
    LET kept == IF Len(secret) <= BlockLen THEN secret ELSE SubSeq(secret, 1, BlockLen)
    IN  [self |-> [key |-> XorAll(CopyPrefix(Zeros(BlockLen), kept), 54)], logs |-> <<>>]

\* HmacKey::new
HmacKeyNew(secret) ==
    LET inner == Zeros(BlockLen)
    IN  IF Len(secret) <= Len(inner)
        THEN [self |-> [key |-> XorAll(CopyPrefix(inner, secret), 54)], logs |-> <<>>]
        ELSE LET algo1 == DigestUpdate(DigestNew, secret)
                 r == DigestResult(algo1)
                 hash == r.out
                 filled == CopyPrefix(inner, hash)
                 algo2 == DigestReset(r.st)
             IN  [self |-> [key |-> XorAll(filled, 54)], logs |-> <<algo2.log>>]

\* a defect: the instance is not reset between the inner and the outer pass
HmacSignNoReset(self, input) ==
    LET key == self.key
        r1 == DigestResult(DigestUpdate(DigestUpdate(DigestNew, key), input))
        okey == XorAll(key, Xor8(54, 92))
        r2 == DigestResult(DigestUpdate(DigestUpdate(r1.st, okey), r1.out))
    IN  [out |-> r2.out, self |-> self, logs |-> <<r2.st.log>>]

\* a defect: the stored key is transformed in place, not a copy of it
HmacSignInPlace(self, input) ==
    LET key == self.key
        r1 == DigestResult(DigestUpdate(DigestUpdate(DigestNew, key), input))
        okey == XorAll(key, Xor8(54, 92))
        r2 == DigestResult(DigestUpdate(DigestUpdate(DigestReset(r1.st), okey), r1.out))
    IN  [out |-> r2.out, self |-> [key |-> okey], logs |-> <<r2.st.log>>]

\* HmacKey::sign
HmacSign(self, input) ==
    LET key == self.key
        algo1 == DigestUpdate(DigestUpdate(DigestNew, key), input)
        r1 == DigestResult(algo1)
        inner_result == r1.out
        algo2 == DigestReset(r1.st)
        okey == XorAll(key, Xor8(54, 92))
        algo3 == DigestUpdate(DigestUpdate(algo2, okey), inner_result)
        r2 == DigestResult(algo3)
    IN  [out |-> r2.out, self |-> self, logs |-> <<r2.st.log>>]

\* a defect: a key derived by an earlier call is reused
HmacCached(input, secret) ==
    IF hkey # NoKey
    THEN HmacSign(hkey, input)
    ELSE HmacSign(HmacKeyNew(secret).self, input)

\* hmac
Hmac(input, secret) ==
    LET k == HmacKeyNew(secret)
        r == HmacSign(k.self, input)
    IN  [out |-> r.out, self |-> r.self, logs |-> k.logs \o r.logs]

(***************************************************************************)
(* The inputs of the model.                                                *)
(***************************************************************************)
MaxOver == 1
MaxInputLen == 1
SecretBytes == {0, 165}
InputBytes == {54, 201}
Secrets == SeqsUpTo(SecretBytes, BlockLen + MaxOver)
Inputs == SeqsUpTo(InputBytes, MaxInputLen)
\* the secrets of the keys that live while hmac is called
SessionSecrets ==
    {s \in Secrets : Len(s) \in {0, BlockLen + MaxOver} /\ \A i \in 1..Len(s) : s[i] = 165}

NoCall == [op |-> "none", input |-> <<>>, secret |-> <<>>, out |-> <<>>]
NoRem == [call |-> NoCall, other |-> FALSE]

HInit ==
    /\ hkey = NoKey
    /\ hsecret = <<>>
    /\ key0 = <<>>
    /\ rem = NoRem
    /\ last = NoCall
    /\ dlog = <<>>

\* let k = HmacKey::<D>::new(secret)
New(secret) ==
    /\ \E r \in {HmacKeyNew(secret)} :
           /\ hkey' = r.self
           /\ key0' = r.self.key
           /\ dlog' = r.logs
    /\ hsecret' = secret
    /\ rem' = NoRem
    /\ last' = [op |-> "new", input |-> <<>>, secret |-> secret, out |-> <<>>]

\* k.sign(input); keep: the call is the one remembered for later comparison
Sign(input, keep) ==
    /\ hkey # NoKey
    /\ \E r \in {HmacSign(hkey, input)} :
           /\ hkey' = r.self
           /\ last' = [op |-> "sign", input |-> input, secret |-> <<>>, out |-> r.out]
           /\ dlog' = r.logs
           /\ rem' = IF keep THEN [call |-> last', other |-> FALSE]
                     ELSE [rem EXCEPT !.other = @ \/ (rem.call.op = "sign" /\ rem.call.input # input)]
    /\ UNCHANGED <<key0, hsecret>>

\* hmac::<D>(input, secret)
HmacCall(input, secret) ==
    /\ \E r \in {Hmac(input, secret)} :
           /\ last' = [op |-> "hmac", input |-> input, secret |-> secret, out |-> r.out]
           /\ dlog' = r.logs
    /\ UNCHANGED <<hkey, hsecret, key0, rem>>

\* HmacKey::new and HmacKey::sign
Next ==
    \/ \E s \in Secrets : New(s) /\ UNCHANGED <<fvars, xvars>>
    \/ \E i \in Inputs, keep \in BOOLEAN : Sign(i, keep) /\ UNCHANGED <<fvars, xvars>>

\* hmac beside a live HmacKey
NextHmac ==
    \/ \E s \in SessionSecrets : New(s) /\ UNCHANGED <<fvars, xvars>>
    \/ \E i \in Inputs : Sign(i, FALSE) /\ UNCHANGED <<fvars, xvars>>
    \/ \E i \in Inputs, s \in Secrets : HmacCall(i, s) /\ UNCHANGED <<fvars, xvars>>

(***************************************************************************)
(* DigestFmt.  The destination is a core::fmt::Write: one that accepts     *)
(* every write (a String), or one with room for a number of characters     *)
(* that rejects the write that does not fit.                               *)
(***************************************************************************)
CHAR_TABLE == <<"0", "1", "2", "3", "4", "5", "6", "7",
                "8", "9", "a", "b", "c", "d", "e", "f">>

\* fmt.write_str(s)
WriteStr(w, s) ==
    IF w.bounded /\ Len(s) > w.room
    THEN [res |-> "Err", w |-> w]
    ELSE [res |-> "Ok",
          w |-> [w EXCEPT !.text = @ \o s,
                          !.room = IF w.bounded THEN @ - Len(s) ELSE @]]

\* the two characters of one byte
HexPair(byt) == <<CHAR_TABLE[((byt \div 16) % 16) + 1], CHAR_TABLE[(byt % 16) + 1]>>

\* a defect: the low half byte is written first
RECURSIVE DigestFmtSwapped(_, _)
DigestFmtSwapped(bytes, w) ==
    IF bytes = <<>> THEN [res |-> "Ok", w |-> w]
    ELSE LET p == HexPair(Head(bytes))
             r == WriteStr(w, <<p[2], p[1]>>)
         IN  IF r.res = "Err" THEN r ELSE DigestFmtSwapped(Tail(bytes), r.w)

\* a defect: the writer's error is dropped
RECURSIVE DigestFmtIgnoreErr(_, _)
DigestFmtIgnoreErr(bytes, w) ==
    IF bytes = <<>> THEN [res |-> "Ok", w |-> w]
    ELSE DigestFmtIgnoreErr(Tail(bytes), WriteStr(w, HexPair(Head(bytes))).w)

\* <DigestFmt<T> as Display>::fmt
RECURSIVE DigestFmt(_, _)
DigestFmt(bytes, w) ==
    IF bytes = <<>> THEN [res |-> "Ok", w |-> w]
    ELSE LET buf == HexPair(Head(bytes))
             r == WriteStr(w, buf)
         IN  IF r.res = "Err" THEN r ELSE DigestFmt(Tail(bytes), r.w)

MaxFmtLen == 2
MaxRoom == 4
FmtBytes == {9, 10, 165, 240}
FmtBuffers == SeqsUpTo(FmtBytes, MaxFmtLen)
Writers ==
    {[text |-> t, bounded |-> FALSE, room |-> 0] : t \in {<<>>, <<"#">>}}
    \cup {[text |-> t, bounded |-> TRUE, room |-> n] : t \in {<<>>, <<"#">>}, n \in 0..MaxRoom}

FInit ==
    /\ fbytes = <<>>
    /\ fw0 = [text |-> <<>>, bounded |-> FALSE, room |-> 0]
    /\ fw = fw0
    /\ fres = "none"

\* write!(w, "{}", DigestFmt(bytes))
Fmt(bytes, w) ==
    /\ \E r \in {DigestFmt(bytes, w)} :
           /\ fres' = r.res
           /\ fw' = r.w
    /\ fbytes' = bytes
    /\ fw0' = w

NextFmt == \E bytes \in FmtBuffers, w \in Writers : Fmt(bytes, w) /\ UNCHANGED <<hvars, xvars>>

(***************************************************************************)
(* x-io.  Paths are relative to the working directory, which is a          *)
(* directory throughout; a path is the sequence of its components.         *)
(***************************************************************************)
Paths == {<<"d">>, <<"d", "e">>, <<"d", "e", "f">>, <<"d", "g">>}
\* the paths the file functions are called with
FilePaths == {<<"d">>, <<"d", "e">>, <<"d", "e", "f">>}
\* the contents write_file and append_file are called with
Chunks == {<<>>, <<1>>, <<2>>, <<1, 2>>}
\* append_file is not called on a file it would make longer than this
MaxContent == 3

Absent == [kind |-> "absent", data |-> <<>>]
DirNode == [kind |-> "dir", data |-> <<>>]
FileNode(c) == [kind |-> "file", data |-> c]

\* Path::parent
Parent(p) == SubSeq(p, 1, Len(p) - 1)
Ancestors(p) == {SubSeq(p, 1, k) : k \in 1..(Len(p) - 1)}
IsUnder(q, p) == Len(q) > Len(p) /\ SubSeq(q, 1, Len(p)) = p

\* Path::exists, Path::is_file, Path::is_dir
Exists(f, p) == f[p].kind # "absent"
IsFile(f, p) == f[p].kind = "file"
IsDir(f, p) == f[p].kind = "dir"

\* the error the system reports for a path it cannot walk to: the first
\* component that is no directory is missing (NotFound) or a file (NotADirectory)
WalkError(f, p) ==
    LET bad == {a \in Ancestors(p) : ~IsDir(f, a)}
        first == CHOOSE a \in bad : \A b \in bad : Len(a) <= Len(b)
    IN  IF bad = {} THEN "Ok"
        ELSE IF f[first].kind = "absent" THEN "NotFound" ELSE "NotADirectory"

\* mkdir
Mkdir(f, p) ==
    IF WalkError(f, p) # "Ok" THEN [res |-> WalkError(f, p), fs |-> f]
    ELSE IF Exists(f, p) THEN [res |-> "AlreadyExists", fs |-> f]
    ELSE [res |-> "Ok", fs |-> [f EXCEPT ![p] = DirNode]]

\* std::fs::create_dir_all
RECURSIVE CreateDirAll(_, _)
CreateDirAll(f, p) ==
    IF p = <<>> THEN [res |-> "Ok", fs |-> f]
    ELSE LET m == Mkdir(f, p)
         IN  IF m.res = "Ok" THEN m
             ELSE IF m.res # "NotFound"
             THEN [res |-> IF IsDir(f, p) THEN "Ok" ELSE m.res, fs |-> f]
             ELSE LET up == CreateDirAll(f, Parent(p))
                      m2 == Mkdir(up.fs, p)
                  IN  IF up.res # "Ok" THEN up
                      ELSE IF m2.res = "Ok" THEN m2
                      ELSE [res |-> IF IsDir(up.fs, p) THEN "Ok" ELSE m2.res, fs |-> up.fs]

\* File::create: create or truncate
FileCreate(f, p) ==
    IF WalkError(f, p) # "Ok" THEN [res |-> WalkError(f, p), fs |-> f]
    ELSE IF IsDir(f, p) THEN [res |-> "IsADirectory", fs |-> f]
    ELSE [res |-> "Ok", fs |-> [f EXCEPT ![p] = FileNode(<<>>)]]

\* OpenOptions::new().append(true).open
OpenAppend(f, p) ==
    IF WalkError(f, p) # "Ok" THEN [res |-> WalkError(f, p), fs |-> f]
    ELSE IF IsDir(f, p) THEN [res |-> "IsADirectory", fs |-> f]
    ELSE IF ~Exists(f, p) THEN [res |-> "NotFound", fs |-> f]
    ELSE [res |-> "Ok", fs |-> f]

\* directory::create
DirectoryCreate(f, p) ==
    IF IsDir(f, p) /\ Exists(f, p) THEN [res |-> "Ok", fs |-> f]
    ELSE LET r == CreateDirAll(f, p)
         IN  [res |-> IF r.res = "Ok" THEN "Ok" ELSE "IOError", fs |-> r.fs]

\* path::parent_directory, directory::create_parent
CreateParent(f, p) ==
    IF Parent(p) = <<>> THEN [res |-> "Ok", fs |-> f]
    ELSE DirectoryCreate(f, Parent(p))

\* a defect: an existing file is created again, which empties it
EnsureExistsTruncating(f, p) ==
    IF Exists(f, p) /\ ~IsFile(f, p) THEN [res |-> "AlreadyExist", fs |-> f]
    ELSE LET cp == CreateParent(f, p)
             r == FileCreate(cp.fs, p)
         IN  IF cp.res # "Ok" THEN cp
             ELSE [res |-> IF r.res = "Ok" THEN "Ok" ELSE "IOError", fs |-> r.fs]

\* file::ensure_exists
EnsureExists(f, p) ==
    IF Exists(f, p)
    THEN IF IsFile(f, p) THEN [res |-> "Ok", fs |-> f]
         ELSE [res |-> "AlreadyExist", fs |-> f]
    ELSE LET cp == CreateParent(f, p)
             r == FileCreate(cp.fs, p)
         IN  IF cp.res # "Ok" THEN cp
             ELSE [res |-> IF r.res = "Ok" THEN "Ok" ELSE "IOError", fs |-> r.fs]

\* file::modify_file with write_content = |file| file.write_all(data)
ModifyFile(f, p, data, append) ==
    LET cp == CreateParent(f, p)
        opened == IF append /\ Exists(cp.fs, p)
                  THEN OpenAppend(cp.fs, p)
                  ELSE FileCreate(cp.fs, p)
    IN  IF cp.res # "Ok" THEN cp
        ELSE IF opened.res # "Ok" THEN [res |-> "IOError", fs |-> opened.fs]
        ELSE [res |-> "Ok", fs |-> [opened.fs EXCEPT ![p].data = @ \o data]]

\* a defect: write_file passes append = true
WriteFileAppending(f, p, data) == ModifyFile(f, p, data, TRUE)

\* file::write_file
WriteFile(f, p, data) == ModifyFile(f, p, data, FALSE)

\* a defect: append_file passes append = false
AppendFileTruncating(f, p, data) == ModifyFile(f, p, data, FALSE)

\* file::append_file
AppendFile(f, p, data) == ModifyFile(f, p, data, TRUE)

\* file::read_file
ReadFile(f, p) ==
    IF IsFile(f, p) THEN [res |-> "Ok", data |-> f[p].data]
    ELSE [res |-> "IOError", data |-> <<>>]

\* a defect: a path that does not exist is reported as no file
FileDeleteMissingIsError(f, p) ==
    IF IsFile(f, p) THEN [res |-> "Ok", fs |-> [f EXCEPT ![p] = Absent]]
    ELSE [res |-> "NotFile", fs |-> f]

\* file::delete
FileDelete(f, p) ==
    IF Exists(f, p)
    THEN IF IsFile(f, p) THEN [res |-> "Ok", fs |-> [f EXCEPT ![p] = Absent]]
         ELSE [res |-> "NotFile", fs |-> f]
    ELSE [res |-> "Ok", fs |-> f]

\* file::delete_ignore_error
FileDeleteIgnoreError(f, p) ==
    LET r == FileDelete(f, p)
    IN  [res |-> IF r.res = "Ok" THEN "true" ELSE "false", fs |-> r.fs]

\* std::fs::remove_dir_all on a directory
RemoveDirAll(f, p) ==
    [q \in Paths |-> IF q = p \/ IsUnder(q, p) THEN Absent ELSE f[q]]

\* a defect: only the directory itself is removed, its entries stay
DirectoryDeleteShallow(f, p) ==
    IF Exists(f, p)
    THEN IF IsDir(f, p) THEN [res |-> "Ok", fs |-> [f EXCEPT ![p] = Absent]]
         ELSE [res |-> "NotFile", fs |-> f]
    ELSE [res |-> "Ok", fs |-> f]

\* directory::delete
DirectoryDelete(f, p) ==
    IF Exists(f, p)
    THEN IF IsDir(f, p) THEN [res |-> "Ok", fs |-> RemoveDirAll(f, p)]
         ELSE [res |-> "NotFile", fs |-> f]
    ELSE [res |-> "Ok", fs |-> f]

NoExpect == [known |-> FALSE, data |-> <<>>, appends |-> 0]
NoFsCall == [op |-> "none", path |-> <<>>, data |-> <<>>, res |-> "none"]

XInit ==
    /\ fs = [p \in Paths |-> Absent]
    /\ pre = fs
    /\ flast = NoFsCall
    /\ expect = [p \in Paths |-> NoExpect]

\* a call on path p other than write_file and append_file ends what was known
\* of p; one that removes a directory, of every path under it as well
Forget(p, below) ==
    [q \in Paths |-> IF q = p \/ (below /\ IsUnder(q, p)) THEN NoExpect ELSE expect[q]]

Called(op, p, data, result) ==
    \E r \in {result} :
    /\ fs' = r.fs
    /\ pre' = fs
    /\ flast' = [op |-> op, path |-> p, data |-> data, res |-> r.res]

CallEnsureExists(p) ==
    /\ Called("ensure_exists", p, <<>>, EnsureExists(fs, p))
    /\ expect' = Forget(p, FALSE)

CallWriteFile(p, data) ==
    /\ \E r \in {WriteFile(fs, p, data)} :
           /\ Called("write_file", p, data, r)
           /\ expect' = [expect EXCEPT ![p] =
                  IF r.res = "Ok" THEN [known |-> TRUE, data |-> data, appends |-> 0]
                  ELSE NoExpect]

CallAppendFile(p, data) ==
    /\ Len(fs[p].data) + Len(data) <= MaxContent
    /\ \E r \in {AppendFile(fs, p, data)} :
           /\ Called("append_file", p, data, r)
           /\ expect' = [expect EXCEPT ![p] =
                  IF r.res = "Ok" /\ @.known
                  THEN [known |-> TRUE, data |-> @.data \o data,
                        appends |-> IF @.appends < 2 THEN @.appends + 1 ELSE @.appends]
                  ELSE NoExpect]

CallReadFile(p) ==
    /\ \E r \in {ReadFile(fs, p)} :
           Called("read_file", p, r.data, [res |-> r.res, fs |-> fs])
    /\ UNCHANGED expect

CallFileDelete(p) ==
    /\ Called("file::delete", p, <<>>, FileDelete(fs, p))
    /\ expect' = Forget(p, FALSE)

CallFileDeleteIgnoreError(p) ==
    /\ Called("file::delete_ignore_error", p, <<>>, FileDeleteIgnoreError(fs, p))
    /\ expect' = Forget(p, FALSE)

CallDirectoryCreate(p) ==
    /\ Called("directory::create", p, <<>>, DirectoryCreate(fs, p))
    /\ expect' = Forget(p, FALSE)

CallDirectoryDelete(p) ==
    /\ Called("directory::delete", p, <<>>, DirectoryDelete(fs, p))
    /\ expect' = Forget(p, TRUE)

NextFs ==
    \/ \E p \in FilePaths : CallEnsureExists(p) /\ UNCHANGED <<hvars, fvars>>
    \/ \E p \in FilePaths, data \in Chunks : CallWriteFile(p, data) /\ UNCHANGED <<hvars, fvars>>
    \/ \E p \in FilePaths, data \in Chunks : CallAppendFile(p, data) /\ UNCHANGED <<hvars, fvars>>
    \/ \E p \in FilePaths : CallReadFile(p) /\ UNCHANGED <<hvars, fvars>>
    \/ \E p \in FilePaths : CallFileDelete(p) /\ UNCHANGED <<hvars, fvars>>
    \/ \E p \in FilePaths : CallFileDeleteIgnoreError(p) /\ UNCHANGED <<hvars, fvars>>
    \/ \E p \in Paths : CallDirectoryCreate(p) /\ UNCHANGED <<hvars, fvars>>
    \/ \E p \in Paths : CallDirectoryDelete(p) /\ UNCHANGED <<hvars, fvars>>

Init == HInit /\ FInit /\ XInit

Spec == Init /\ [][Next]_vars

SpecHmac == Init /\ [][NextHmac]_vars

SpecFmt == Init /\ [][NextFmt]_vars

SpecFs == Init /\ [][NextFs]_vars

(***************************************************************************)
(* Properties of HmacKey and hmac.                                         *)
(***************************************************************************)
\* the secret brought to the block size: itself, or its digest, then zeros
PaddedSecret(secret) ==
    IF Len(secret) <= BlockLen
    THEN secret \o Zeros(BlockLen - Len(secret))
    ELSE Digest(secret) \o Zeros(BlockLen - OutLen)

\* C1: the tag sign returns is D(K5c || D(K36 || input)), K36 the stored key
\* buffer, K5c that buffer with every byte XORed with 0x36 ^ 0x5C, which is the
\* zero-padded secret XORed with 0x5C, D the one-shot digest.
SignIsNestedDigest ==
    last.op = "sign" =>
        LET K36 == hkey.key
            K5c == [i \in 1..Len(K36) |-> Xor8(K36[i], 106)]
        IN  /\ K5c = [i \in 1..BlockLen |-> Xor8(PaddedSecret(hsecret)[i], 92)]
            /\ last.out = Digest(K5c \o Digest(K36 \o last.input))

SignWitness ==
    /\ last.op = "sign"
    /\ Len(last.input) > 0
    /\ Len(hsecret) > BlockLen

\* C2: sign calls leave the stored key as HmacKey::new made it, and a sign call
\* returns the tag an earlier sign call on the same key returned for the same
\* input, whichever inputs were signed between the two.
SignKeepsKeyAndRepeats ==
    /\ hkey # NoKey => hkey.key = key0
    /\ (last.op = "sign" /\ rem.call.op = "sign" /\ rem.call.input = last.input)
           => last.out = rem.call.out

SignRepeatWitness ==
    /\ last.op = "sign"
    /\ rem.call.op = "sign"
    /\ rem.call.input = last.input
    /\ rem.other

\* C3: for a secret no longer than the block size HmacKey::new stores
\* block-size bytes, secret[i] XOR 0x36 at the secret's positions and 0x36 after
\* them, and uses no Digest instance.
NewShortSecretIsPadded ==
    (last.op = "new" /\ Len(last.secret) <= BlockLen) =>
        /\ Len(hkey.key) = BlockLen
        /\ \A i \in 1..BlockLen :
               hkey.key[i] = IF i <= Len(last.secret)
                             THEN Xor8(last.secret[i], 54) ELSE 54
        /\ dlog = <<>>

NewBlockSizeSecretWitness ==
    /\ last.op = "new"
    /\ Len(last.secret) = BlockLen
    /\ \E i \in 1..BlockLen : last.secret[i] # 0

NewEmptySecretWitness ==
    /\ last.op = "new"
    /\ last.secret = <<>>

\* C4: for a secret longer than the block size HmacKey::new stores block-size
\* bytes, D(secret)[i] XOR 0x36 at the digest's positions and 0x36 after them.
NewLongSecretIsHashed ==
    (last.op = "new" /\ Len(last.secret) > BlockLen) =>
        /\ Len(hkey.key) = BlockLen
        /\ \A i \in 1..BlockLen :
               hkey.key[i] = IF i <= OutLen
                             THEN Xor8(Digest(last.secret)[i], 54) ELSE 54

NewLongSecretWitness ==
    /\ last.op = "new"
    /\ Len(last.secret) = BlockLen + 1
    /\ dlog # <<>>

\* C5: hmac(input, secret) returns the tag of HmacKey::new(secret) followed by
\* sign(input), whatever calls came before it and whatever HmacKey is live.
HmacIsNewThenSign ==
    last.op = "hmac" =>
        /\ last.out = HmacSign(HmacKeyNew(last.secret).self, last.input).out
        /\ last.out = Digest([i \in 1..BlockLen |-> Xor8(PaddedSecret(last.secret)[i], 92)]
                             \o Digest([i \in 1..BlockLen |-> Xor8(PaddedSecret(last.secret)[i], 54)]
                                       \o last.input))

HmacWitness ==
    /\ last.op = "hmac"
    /\ hkey # NoKey
    /\ HmacKeyNew(last.secret).self # hkey
    /\ last.out # HmacSign(hkey, last.input).out

(***************************************************************************)
(* Properties of DigestFmt.                                                *)
(***************************************************************************)
\* what the latest fmt call appended to its destination
Written == SubSeq(fw.text, Len(fw0.text) + 1, Len(fw.text))

HexAlphabet == {"0", "1", "2", "3", "4", "5", "6", "7",
                "8", "9", "a", "b", "c", "d", "e", "f"}

\* a hex decoder of its own
HexDigitValue(c) ==
    CASE c = "0" -> 0 [] c = "1" -> 1 [] c = "2" -> 2 [] c = "3" -> 3
      [] c = "4" -> 4 [] c = "5" -> 5 [] c = "6" -> 6 [] c = "7" -> 7
      [] c = "8" -> 8 [] c = "9" -> 9 [] c = "a" -> 10 [] c = "b" -> 11
      [] c = "c" -> 12 [] c = "d" -> 13 [] c = "e" -> 14 [] c = "f" -> 15

HexDecode(text) ==
    [i \in 1..(Len(text) \div 2) |->
        16 * HexDigitValue(text[2 * i - 1]) + HexDigitValue(text[2 * i])]

\* C6: a fmt call that returns Ok has appended exactly 2N characters of
\* 0123456789abcdef for its N bytes, the high then the low half of each byte in
\* order; decoding them gives the bytes back; no bytes, no characters.
FmtWritesLowercaseHex ==
    fres = "Ok" =>
        /\ fw.text = fw0.text \o Written
        /\ Len(Written) = 2 * Len(fbytes)
        /\ \A j \in 1..Len(Written) : Written[j] \in HexAlphabet
        /\ \A i \in 1..Len(fbytes) :
               /\ HexDigitValue(Written[2 * i - 1]) = fbytes[i] \div 16
               /\ HexDigitValue(Written[2 * i]) = fbytes[i] % 16
        /\ HexDecode(Written) = fbytes
        /\ (fbytes = <<>> => Written = <<>>)

FmtWitness ==
    /\ fres = "Ok"
    /\ Len(fbytes) = 2
    /\ fbytes[1] = 10
    /\ fbytes[2] = 240
    /\ Written = <<"0", "a", "f", "0">>

\* C7 as stated: fmt returns Ok for every buffer and every destination writer.
FmtNeverFails == fres # "Err"

\* C7 amended: fmt returns Err exactly when the destination rejects one of its
\* writes (here: it has room for fewer than 2N characters), having appended the
\* characters of the bytes before the rejected write; otherwise it returns Ok.
FmtFailsOnlyWithWriter ==
    fres # "none" =>
        /\ fres = "Err" <=> (fw0.bounded /\ fw0.room < 2 * Len(fbytes))
        /\ fres = "Err" =>
               /\ fw.text = fw0.text \o Written
               /\ Len(Written) = 2 * (fw0.room \div 2)
               /\ HexDecode(Written) = SubSeq(fbytes, 1, fw0.room \div 2)

FmtWriterFullWitness ==
    /\ fres = "Err"
    /\ Len(fbytes) = 2
    /\ Len(Written) = 2

FmtOkWitness ==
    /\ fres = "Ok"
    /\ fw0.bounded
    /\ Len(fbytes) > 0

(***************************************************************************)
(* Properties of the file functions.                                       *)
(***************************************************************************)
\* a file system keeps files and directories inside directories only
WellFormed(f) == \A p \in Paths : Exists(f, p) => \A a \in Ancestors(p) : IsDir(f, a)

\* f and g differ at most at p and at the ancestors of p
SameExceptAt(f, g, p) ==
    \A q \in Paths : (q # p /\ q \notin Ancestors(p)) => f[q] = g[q]

WriteFileOverwrites ==
    (flast.op = "write_file" /\ flast.res = "Ok") =>
        /\ IsFile(fs, flast.path)
        /\ ReadFile(fs, flast.path) = [res |-> "Ok", data |-> flast.data]
        /\ \A a \in Ancestors(flast.path) : IsDir(fs, a)
        /\ SameExceptAt(fs, pre, flast.path)

WriteOverContentWitness ==
    /\ flast.op = "write_file"
    /\ flast.res = "Ok"
    /\ IsFile(pre, flast.path)
    /\ Len(pre[flast.path].data) = 3
    /\ flast.data = <<2>>

WriteCreatesParentsWitness ==
    /\ flast.op = "write_file"
    /\ flast.res = "Ok"
    /\ Len(flast.path) = 3
    /\ \A a \in Ancestors(flast.path) : ~Exists(pre, a)

\* C10 as stated: ensure_exists(p) returns Ok and changes nothing when p is a
\* file, returns AlreadyExist and changes nothing when p exists and is no file,
\* and when p does not exist creates the parent directories and an empty file
\* and returns Ok.
EnsureExistsAlwaysCreates ==
    flast.op = "ensure_exists" =>
        /\ IsFile(pre, flast.path) => (flast.res = "Ok" /\ fs = pre)
        /\ (Exists(pre, flast.path) /\ ~IsFile(pre, flast.path))
               => (flast.res = "AlreadyExist" /\ fs = pre)
        /\ ~Exists(pre, flast.path) =>
               /\ flast.res = "Ok"
               /\ fs[flast.path] = FileNode(<<>>)
               /\ \A a \in Ancestors(flast.path) : IsDir(fs, a)

\* C10 amended: as stated for a path that exists; for a path that does not,
\* ensure_exists creates the missing parent directories and an empty file and
\* returns Ok when nothing above the path is a file, and returns IOError and
\* changes nothing when a file is in the way above the path.
EnsureExistsUnlessFileAbove ==
    flast.op = "ensure_exists" =>
        /\ IsFile(pre, flast.path) => (flast.res = "Ok" /\ fs = pre)
        /\ (Exists(pre, flast.path) /\ ~IsFile(pre, flast.path))
               => (flast.res = "AlreadyExist" /\ fs = pre)
        /\ (~Exists(pre, flast.path) /\ \A a \in Ancestors(flast.path) : ~IsFile(pre, a)) =>
               /\ flast.res = "Ok"
               /\ fs[flast.path] = FileNode(<<>>)
               /\ \A a \in Ancestors(flast.path) : IsDir(fs, a)
               /\ SameExceptAt(fs, pre, flast.path)
        /\ (~Exists(pre, flast.path) /\ \E a \in Ancestors(flast.path) : IsFile(pre, a)) =>
               (flast.res = "IOError" /\ fs = pre)

EnsureExistsKeepsContentWitness ==
    /\ flast.op = "ensure_exists"
    /\ flast.res = "Ok"
    /\ IsFile(pre, flast.path)
    /\ pre[flast.path].data = <<1, 2>>

EnsureExistsFileAboveWitness ==
    /\ flast.op = "ensure_exists"
    /\ flast.res = "IOError"
    /\ IsFile(pre, <<"d">>)
    /\ flast.path = <<"d", "e">>

(***************************************************************************)
(* Properties of the delete functions.                                     *)
(***************************************************************************)
\* f is g with p removed and nothing else changed
RemovedOnly(f, g, p) ==
    /\ ~Exists(f, p)
    /\ \A q \in Paths : q # p => f[q] = g[q]

\* C11: file::delete(p) returns Ok and changes nothing when p does not exist,
\* removes p and returns Ok when p is a file, and returns NotFile and changes
\* nothing when p exists and is no file; delete_ignore_error(p) does the same
\* to the file system and returns true exactly when file::delete returns Ok.
FileDeleteByKind ==
    /\ flast.op = "file::delete" =>
           /\ ~Exists(pre, flast.path) => (flast.res = "Ok" /\ fs = pre)
           /\ IsFile(pre, flast.path) =>
                  (flast.res = "Ok" /\ RemovedOnly(fs, pre, flast.path))
           /\ IsDir(pre, flast.path) => (flast.res = "NotFile" /\ fs = pre)
    /\ flast.op = "file::delete_ignore_error" =>
           /\ flast.res \in {"true", "false"}
           /\ flast.res = "true" <=> ~IsDir(pre, flast.path)
           /\ ~Exists(pre, flast.path) => fs = pre
           /\ IsFile(pre, flast.path) => RemovedOnly(fs, pre, flast.path)
           /\ IsDir(pre, flast.path) => fs = pre

FileDeleteWitness ==
    /\ flast.op = "file::delete"
    /\ flast.res = "Ok"
    /\ IsFile(pre, flast.path)
    /\ pre[flast.path].data # <<>>
    /\ Len(flast.path) > 1

FileDeleteNotFileWitness ==
    /\ flast.op = "file::delete_ignore_error"
    /\ flast.res = "false"
    /\ \E q \in Paths : IsUnder(q, flast.path) /\ IsFile(fs, q)

\* the latest call was directory::delete and it removed a directory
RemovedDirectory ==
    /\ flast.op = "directory::delete"
    /\ flast.res = "Ok"
    /\ IsDir(pre, flast.path)

\* the state left by directory::delete in its three cases
DirectoryDeleteByKind ==
    flast.op = "directory::delete" =>
        /\ ~Exists(pre, flast.path) => (flast.res = "Ok" /\ fs = pre)
        /\ IsDir(pre, flast.path) =>
               /\ flast.res = "Ok"
               /\ \A q \in Paths :
                      IF q = flast.path \/ IsUnder(q, flast.path)
                      THEN ~Exists(fs, q)
                      ELSE fs[q] = pre[q]
        /\ IsFile(pre, flast.path) => (flast.res = "NotFile" /\ fs = pre)

\* a step that calls directory::create or file::ensure_exists on a path under
\* the directory the call before it removed succeeds and leaves the path in
\* place
CreateAfterDirectoryDelete ==
    (/\ RemovedDirectory
     /\ flast' # flast
     /\ flast'.op \in {"directory::create", "ensure_exists"}
     /\ IsUnder(flast'.path, flast.path))
    => /\ flast'.res = "Ok"
       /\ IF flast'.op = "directory::create"
          THEN IsDir(fs', flast'.path)
          ELSE fs'[flast'.path] = FileNode(<<>>)

\* C12: directory::delete(p) returns Ok and changes nothing when p does not
\* exist, removes p and every path beneath it (and nothing else) when p is a
\* directory, and returns an error and changes nothing when p exists and is
\* no directory; a directory::create or file::ensure_exists under p that
\* follows the removal succeeds.
DirectoryDeleteRemovesTree ==
    /\ []DirectoryDeleteByKind
    /\ [][CreateAfterDirectoryDelete]_vars

DirectoryDeleteWitness ==
    /\ RemovedDirectory
    /\ Len(flast.path) = 1
    /\ \E q \in Paths : IsUnder(q, flast.path) /\ IsFile(pre, q) /\ pre[q].data # <<>>
    /\ \E q \in Paths : IsUnder(q, flast.path) /\ IsDir(pre, q)
    /\ \A q \in Paths : ~Exists(fs, q)

DirectoryDeleteNotDirectoryWitness ==
    /\ flast.op = "directory::delete"
    /\ flast.res = "NotFile"
    /\ pre[flast.path].data # <<>>

(***************************************************************************)
(* Properties of the calls issued to the Digest instances.                 *)
(***************************************************************************)
\* the calls of log are (new or reset), update*, result, repeated: the
\* instance is constructed first and only once, and between a result and a
\* later update or result there is a reset
WellDriven(log) ==
    /\ Len(log) > 0
    /\ log[1] = "new"
    /\ \A i \in 2..Len(log) : log[i] \in {"update", "result", "reset"}
    /\ \A i, j \in 1..Len(log) :
           (i < j /\ log[i] = "result" /\ log[j] \in {"update", "result"})
               => \E k \in (i + 1)..(j - 1) : log[k] = "reset"

\* the positions of log that hold call
Positions(log, call) == {i \in 1..Len(log) : log[i] = call}

\* C13: HmacKey::new and HmacKey::sign drive every Digest instance they use in
\* the order (new or reset), update*, result, with no update or result after a
\* result unless a reset lies between; sign uses one instance for both passes,
\* resets it once between them, and its tag is the result a freshly
\* constructed instance gives for the updates of the outer pass.
DigestDrivenInOrder ==
    /\ \A n \in 1..Len(dlog) : WellDriven(dlog[n])
    /\ last.op = "new" => \A n \in 1..Len(dlog) : Positions(dlog[n], "result") # {}
    /\ last.op = "sign" =>
           /\ Len(dlog) = 1
           /\ Cardinality(Positions(dlog[1], "reset")) = 1
           /\ Cardinality(Positions(dlog[1], "result")) = 2
           /\ dlog[1][Len(dlog[1])] = "result"
           /\ LET K36 == hkey.key
                  K5c == XorAll(K36, Xor8(54, 92))
                  inner == DigestResult(DigestUpdate(DigestUpdate(DigestNew, K36), last.input)).out
                  fresh == DigestUpdate(DigestUpdate(DigestNew, K5c), inner)
              IN  last.out = DigestResult(fresh).out

DigestDrivenWitness ==
    /\ last.op = "sign"
    /\ Len(last.input) > 0
    /\ Len(hsecret) > BlockLen
    /\ \E i \in Positions(dlog[1], "reset") :
           /\ \E j \in Positions(dlog[1], "update") : j > i
           /\ \E j \in Positions(dlog[1], "result") : j < i

DigestDrivenNewWitness ==
    /\ last.op = "new"
    /\ Len(dlog) = 1
    /\ dlog[1][Len(dlog[1])] = "reset"

====
